---- MODULE Spec2Model ----
\* The client-side data pipeline of the icon gallery (App component): manifest
\* and collection loading with the module-level cache, the style index, the
\* debounced search and the combined search+style filter.
EXTENDS Integers, Sequences, FiniteSets, TLC

VARIABLES
  server,           \* the static JSON served for each collection
  manifestPending,  \* the manifest fetch is in flight
  collections,      \* useState<string[]>([])
  collection,       \* useState('')
  icons,            \* useState<Icon[]>([]): the array (id = its identity)
  fuseRef,          \* useRef<Fuse|null>(null): id 0 is null
  cache,            \* the module-level Map: collection -> {icons, fuse}
  pending,          \* collection fetches in flight: [id, coll]
  nextId,           \* identity of the next fetch response / Fuse instance
  loading,          \* useState(true)
  search,           \* useState(''): the raw query
  debouncedSearch,  \* useDebounce(search, 150)[0]
  timers,           \* pending debounce timeouts, each holding its value
  style,            \* useState('all')
  styles,           \* memo: ['all', ...sorted distinct styles]
  styleIndex,       \* memo: Map style -> Icon[]
  filtered,         \* memo: the Filtered View
  rows,             \* memo: the Filtered View cut into rows
  content,          \* IconModal: icon.content of the selected icon
  color,            \* IconModal: useState('#000000')
  size,             \* IconModal: useState(64)
  svg,              \* IconModal: memo, the transformed markup
  issued,           \* history: fetches issued per collection
  built,            \* history: Fuse indexes built per collection
  lastResolved,     \* history: id of the last fetch resolved per collection
  failed,           \* history: the fetches that failed
  keys,             \* history: raw-query changes in the current debounce burst
  applied           \* history: times the pipeline input was set in that burst

vars == <<server, manifestPending, collections, collection, icons, fuseRef,
          cache, pending, nextId, loading, search, debouncedSearch, timers,
          style, styles, styleIndex, filtered, rows, issued, built, lastResolved,
          failed, keys, applied, content, color, size, svg>>

\* The state of the customization view (IconModal).
modalVars == <<content, color, size, svg>>

-----------------------------------------------------------------------------
\* Bounds of the model.
MaxFetches == 3     \* collection fetches issued in one session
MaxBurst == 5       \* raw-query changes counted in one debounce burst
MaxLen == 3         \* length of the enumerated icon lists
BigExtra == 2       \* how far the long icon lists exceed the search cap

\* Program constants.
ICONS_PER_ROW == 9
ROW_HEIGHT == 120
FUSE_LIMIT == 500
FUSE_THRESHOLD_TENTHS == 3

-----------------------------------------------------------------------------
\* Data universe.
CollectionIds == {"a", "b"}
Manifests == {<<>>, <<"a", "b">>, <<"b", "a">>}

Home == <<"h", "o", "m", "e">>
Hame == <<"h", "a", "m", "e">>
Star == <<"s", "t", "a", "r">>
Queries == {<<>>, Home, <<"s", "t">>}

\* Style strings in the order Array.prototype.sort() gives them.
StyleOrder == <<"all", "outline", "solid">>
StyleValues == {StyleOrder[i] : i \in 1..Len(StyleOrder)}

Icon(n, s, p, c) == [name |-> n, style |-> s, path |-> p, collection |-> c]

\* IconModal: useState('#000000'), useState(64)
DefaultColor == "#000000"
DefaultSize == 64

EmptyMap == [k \in {} |-> <<>>]
NoIcons == [id |-> 0, list |-> <<>>]
NullFuse == [id |-> 0, docs |-> <<>>]

Min(a, b) == IF a < b THEN a ELSE b

Range(f) == {f[i] : i \in DOMAIN f}

-----------------------------------------------------------------------------
\* Fuse (fuse.js) as configured by FUSE_OPTIONS: keys ['name'], threshold 0.3,
\* ignoreLocation. A name matches a pattern when some window of the name
\* differs from the pattern in at most threshold * |pattern| places; results
\* are ranked by score (errors / |pattern|), ties in index order.
Mismatches(name, q, off) ==
  Cardinality({j \in 1..Len(q) : name[off + j] # q[j]})

FuseErrors(name, q) ==
  IF Len(q) > Len(name) THEN Len(q) + 1
  ELSE LET ds == {Mismatches(name, q, off) : off \in 0..(Len(name) - Len(q))}
       IN CHOOSE e \in ds : \A x \in ds : e <= x

FuseMatches(name, q) ==
  FuseErrors(name, q) * 10 <= FUSE_THRESHOLD_TENTHS * Len(q)

RECURSIVE FuseRank(_, _, _)
FuseRank(docs, q, e) ==
  IF e * 10 > FUSE_THRESHOLD_TENTHS * Len(q) THEN <<>>
  ELSE SelectSeq(docs, LAMBDA d : FuseErrors(d.name, q) = e)
       \o FuseRank(docs, q, e + 1)

\* fuse.search(q, { limit }).map(r => r.item)
FuseSearch(fuse, q, limit) ==
  LET ranked == FuseRank(fuse.docs, q, 0)
  IN SubSeq(ranked, 1, Min(limit, Len(ranked)))

\* new Fuse(data, FUSE_OPTIONS): a fresh instance over the response's array
NewFuse(data) == [id |-> data.id, docs |-> data.list]

-----------------------------------------------------------------------------
\* The styles / styleIndex memo: one pass over icons.
SortStyles(S) == SelectSeq(StyleOrder, LAMBDA s : s \in S)

MapGet(m, k) == IF k \in DOMAIN m THEN m[k] ELSE <<>>
MapSet(m, k, v) == [x \in DOMAIN m \cup {k} |-> IF x = k THEN v ELSE m[x]]

\* One iteration of `for (const icon of icons)`.
StyleStep_Overwrite(acc, icon) ==
  [styleSet |-> acc.styleSet \cup {icon.style},
   index |-> MapSet(acc.index, icon.style, <<icon>>)]

StyleStep(acc, icon) ==
  LET arr == MapGet(acc.index, icon.style)
  IN [styleSet |-> acc.styleSet \cup {icon.style},
      index |-> MapSet(acc.index, icon.style, Append(arr, icon))]

\* The loop over list[lo..hi] in order, threading the accumulator. The range
\* is halved and the left half is evaluated first (by the comparison), so the
\* evaluation depth is logarithmic in the length of the list.
RECURSIVE StylePass(_, _, _, _)
StylePass(list, lo, hi, acc) ==
  IF lo > hi THEN acc
  ELSE IF lo = hi THEN StyleStep(acc, list[lo])
  ELSE LET mid == (lo + hi) \div 2
           left == StylePass(list, lo, mid, acc)
       IN IF left = acc THEN StylePass(list, mid + 1, hi, acc)
          ELSE StylePass(list, mid + 1, hi, left)

BuildStyleIndex(list) ==
  LET r == StylePass(list, 1, Len(list), [styleSet |-> {}, index |-> EmptyMap])
  IN [styles |-> <<"all">> \o SortStyles(r.styleSet), styleIndex |-> r.index]

-----------------------------------------------------------------------------
\* The filtered memo.
Filtered_IgnoreStyle(ic, ds, st, fr, sidx) ==
  IF ds # <<>> /\ fr.id # 0
    THEN LET result == FuseSearch(fr, ds, FUSE_LIMIT)
         IN IF st # "all" THEN SelectSeq(result, LAMBDA i : i.style = st)
            ELSE result
    ELSE ic.list

Filtered_CapAfterStyle(ic, ds, st, fr, sidx) ==
  IF ds # <<>> /\ fr.id # 0
    THEN LET all == FuseRank(fr.docs, ds, 0)
             kept == IF st # "all" THEN SelectSeq(all, LAMBDA i : i.style = st)
                     ELSE all
         IN SubSeq(kept, 1, Min(FUSE_LIMIT, Len(kept)))
    ELSE IF st # "all" THEN MapGet(sidx, st)
    ELSE ic.list

Filtered(ic, ds, st, fr, sidx) ==
  IF ds # <<>> /\ fr.id # 0
    THEN LET result == FuseSearch(fr, ds, FUSE_LIMIT)
         IN IF st # "all" THEN SelectSeq(result, LAMBDA i : i.style = st)
            ELSE result
    ELSE IF st # "all" THEN MapGet(sidx, st)
    ELSE ic.list

\* The rows memo: for (i = 0; i < filtered.length; i += ICONS_PER_ROW)
\*   result.push(filtered.slice(i, i + ICONS_PER_ROW))
RowSlice_Short(list, i) ==
  SubSeq(list, i + 1, Min(i + ICONS_PER_ROW - 1, Len(list)))

RowSlice(list, i) == SubSeq(list, i + 1, Min(i + ICONS_PER_ROW, Len(list)))

RECURSIVE RowLoop_WholeOnly(_, _, _)
RowLoop_WholeOnly(list, i, result) ==
  IF i + ICONS_PER_ROW <= Len(list)
    THEN RowLoop_WholeOnly(list, i + ICONS_PER_ROW,
                           Append(result, RowSlice(list, i)))
  ELSE result

RECURSIVE RowLoop(_, _, _)
RowLoop(list, i, result) ==
  IF i < Len(list)
    THEN RowLoop(list, i + ICONS_PER_ROW, Append(result, RowSlice(list, i)))
  ELSE result

Rows(list) == RowLoop(list, 0, <<>>)

\* virtualizer.getTotalSize() with count rows of estimateSize ROW_HEIGHT
TotalSize(count) == count * ROW_HEIGHT

\* The memo's dependency array [icons, debouncedSearch, style, styleIndex]
\* (styleIndex changes exactly when icons does).
MemoChanged_NoIcons == debouncedSearch' # debouncedSearch \/ style' # style

MemoChanged ==
  icons' # icons \/ debouncedSearch' # debouncedSearch \/ style' # style

\* One render: the memos are recomputed from the new state.
Render ==
  /\ styles' = IF icons' # icons THEN BuildStyleIndex(icons'.list).styles
               ELSE styles
  /\ styleIndex' = IF icons' # icons
                     THEN BuildStyleIndex(icons'.list).styleIndex
                   ELSE styleIndex
  /\ filtered' = IF MemoChanged
                   THEN Filtered(icons', debouncedSearch', style', fuseRef',
                                 styleIndex')
                 ELSE filtered
  /\ rows' = IF filtered' # filtered THEN Rows(filtered') ELSE rows

-----------------------------------------------------------------------------
\* The collection cache.
CacheHit_Never(c) == FALSE

CacheHit(c) == c \in DOMAIN cache

CacheSet_Clear(m, c, e) == [x \in {c} |-> e]

CacheSet(m, c, e) == MapSet(m, c, e)

\* The key of cache.set: the collection captured by the effect's closure.
ResolveKey_Current(f) == collection

ResolveKey(f) == f.coll

\* The effects keyed on [collection], run after the selection became c: the
\* collection load effect, then the style reset effect.
CollectionEffects_KeepFuse(c) ==
  /\ CacheHit(c) \/ nextId <= MaxFetches
  /\ IF CacheHit(c)
       THEN /\ icons' = cache[c].icons
            /\ loading' = FALSE
            /\ UNCHANGED <<fuseRef, pending, nextId, issued>>
       ELSE /\ loading' = TRUE
            /\ pending' = pending \cup {[id |-> nextId, coll |-> c]}
            /\ nextId' = nextId + 1
            /\ issued' = [issued EXCEPT ![c] = @ + 1]
            /\ UNCHANGED <<icons, fuseRef>>
  /\ style' = "all"

CollectionEffects(c) ==
  /\ CacheHit(c) \/ nextId <= MaxFetches
  /\ IF CacheHit(c)
       THEN /\ icons' = cache[c].icons
            /\ fuseRef' = cache[c].fuse
            /\ loading' = FALSE
            /\ UNCHANGED <<pending, nextId, issued>>
       ELSE /\ loading' = TRUE
            /\ pending' = pending \cup {[id |-> nextId, coll |-> c]}
            /\ nextId' = nextId + 1
            /\ issued' = [issued EXCEPT ![c] = @ + 1]
            /\ UNCHANGED <<icons, fuseRef>>
  /\ style' = "all"

\* fetch('/icons/manifest.json') resolved with { collections: m }.
ManifestLoaded(m) ==
  /\ manifestPending
  /\ manifestPending' = FALSE
  /\ collections' = m
  /\ IF Len(m) > 0
       THEN /\ collection' = m[1]
            /\ CollectionEffects(m[1])
       ELSE UNCHANGED <<collection, icons, fuseRef, loading, pending, nextId,
                        issued, style>>
  /\ UNCHANGED <<modalVars, server, cache, search, debouncedSearch, timers, built,
                 lastResolved, failed, keys, applied>>
  /\ Render

\* The manifest fetch rejected: no handler runs.
ManifestFailed ==
  /\ manifestPending
  /\ manifestPending' = FALSE
  /\ failed' = failed \cup {[id |-> 0, coll |-> "manifest"]}
  /\ UNCHANGED <<modalVars, server, collections, collection, icons, fuseRef, cache,
                 pending, nextId, loading, search, debouncedSearch, timers,
                 style, styles, styleIndex, filtered, rows, issued, built,
                 lastResolved, keys, applied>>

\* A click on a dropdown item other than the active one.
handleCollectionChange(c) ==
  /\ c \in Range(collections)
  /\ c # collection
  /\ collection' = c
  /\ CollectionEffects(c)
  /\ UNCHANGED <<modalVars, server, manifestPending, collections, cache, search,
                 debouncedSearch, timers, built, lastResolved, failed, keys,
                 applied>>
  /\ Render

\* fetch(`/icons/${collection}.json`) resolved: the .then callback.
CollectionLoaded(f) ==
  /\ f \in pending
  /\ LET data == [id |-> f.id, list |-> server[f.coll]]
         fuse == NewFuse(data)
     IN /\ cache' = CacheSet(cache, ResolveKey(f), [icons |-> data, fuse |-> fuse])
        /\ fuseRef' = fuse
        /\ icons' = data
        /\ loading' = FALSE
  /\ pending' = pending \ {f}
  /\ built' = [built EXCEPT ![f.coll] = @ + 1]
  /\ lastResolved' = [lastResolved EXCEPT ![f.coll] = f.id]
  /\ UNCHANGED <<modalVars, server, manifestPending, collections, collection, nextId,
                 search, debouncedSearch, timers, style, issued, failed, keys,
                 applied>>
  /\ Render

\* A failure handler that falls back to an empty list.
CollectionFailed_Reset(f) ==
  /\ f \in pending
  /\ pending' = pending \ {f}
  /\ failed' = failed \cup {f}
  /\ icons' = [id |-> f.id, list |-> <<>>]
  /\ loading' = FALSE
  /\ UNCHANGED <<modalVars, server, manifestPending, collections, collection, fuseRef,
                 cache, nextId, search, debouncedSearch, timers, style, issued,
                 built, lastResolved, keys, applied>>
  /\ Render

\* The collection fetch (or its JSON parse) rejected: no handler runs.
CollectionFailed(f) ==
  /\ f \in pending
  /\ pending' = pending \ {f}
  /\ failed' = failed \cup {f}
  /\ UNCHANGED <<modalVars, server, manifestPending, collections, collection, icons,
                 fuseRef, cache, nextId, loading, search, debouncedSearch,
                 timers, style, styles, styleIndex, filtered, rows, issued, built,
                 lastResolved, keys, applied>>

\* A click on a style button (rendered from styles, disabled while loading).
handleStyleChange(s) ==
  /\ ~loading
  /\ s \in Range(styles)
  /\ s # style
  /\ style' = s
  /\ UNCHANGED <<modalVars, server, manifestPending, collections, collection, icons,
                 fuseRef, cache, pending, nextId, loading, search,
                 debouncedSearch, timers, issued, built, lastResolved, failed,
                 keys, applied>>
  /\ Render

\* useDebounce: a changed value clears the pending timeout and sets a new one.
Debounced_NoCancel(v) == timers \cup {v}

Debounced(v) == {v}

SetSearch(v) ==
  /\ v # search
  /\ timers = {} \/ keys < MaxBurst
  /\ search' = v
  /\ timers' = Debounced(v)
  /\ keys' = IF timers = {} THEN 1 ELSE keys + 1
  /\ applied' = IF timers = {} THEN 0 ELSE applied
  /\ UNCHANGED <<modalVars, server, manifestPending, collections, collection, icons,
                 fuseRef, cache, pending, nextId, loading, debouncedSearch,
                 style, issued, built, lastResolved, failed>>
  /\ Render

\* Typing in the search box (disabled while loading).
handleSearchChange(v) ==
  /\ ~loading
  /\ SetSearch(v)

\* The clear button, shown whenever the raw query is non-empty.
handleClearSearch ==
  /\ search # <<>>
  /\ SetSearch(<<>>)

\* A debounce timeout elapsed: the value it holds becomes the pipeline input.
DebounceFire(t) ==
  /\ t \in timers
  /\ timers' = timers \ {t}
  /\ debouncedSearch' = t
  /\ applied' = applied + 1
  /\ UNCHANGED <<modalVars, server, manifestPending, collections, collection, icons,
                 fuseRef, cache, pending, nextId, loading, search, style,
                 issued, built, lastResolved, failed, keys>>
  /\ Render

-----------------------------------------------------------------------------
\* The session from page load, over a fixed pair of collections.
ServerData ==
  [c \in CollectionIds |->
     IF c = "a"
       THEN <<Icon(Hame, "solid", <<"a", 1>>, "a"),
              Icon(Home, "outline", <<"a", 2>>, "a")>>
       ELSE <<Icon(Home, "solid", <<"b", 1>>, "b"),
              Icon(Star, "solid", <<"b", 2>>, "b")>>]

Init ==
  /\ server = ServerData
  /\ manifestPending = TRUE
  /\ collections = <<>>
  /\ collection = ""
  /\ icons = NoIcons
  /\ fuseRef = NullFuse
  /\ cache = EmptyMap
  /\ pending = {}
  /\ nextId = 1
  /\ loading = TRUE
  /\ search = <<>>
  /\ debouncedSearch = <<>>
  /\ timers = {}
  /\ style = "all"
  /\ styles = <<"all">>
  /\ styleIndex = EmptyMap
  /\ filtered = <<>>
  /\ rows = <<>>
  /\ content = <<>>
  /\ color = DefaultColor
  /\ size = DefaultSize
  /\ svg = <<>>
  /\ issued = [c \in CollectionIds |-> 0]
  /\ built = [c \in CollectionIds |-> 0]
  /\ lastResolved = [c \in CollectionIds |-> 0]
  /\ failed = {}
  /\ keys = 0
  /\ applied = 0

Next ==
  \/ \E m \in Manifests : ManifestLoaded(m)
  \/ ManifestFailed
  \/ \E c \in CollectionIds : handleCollectionChange(c)
  \/ \E f \in pending : CollectionLoaded(f)
  \/ \E f \in pending : CollectionFailed(f)
  \/ \E s \in StyleValues : handleStyleChange(s)
  \/ \E v \in Queries : handleSearchChange(v)
  \/ handleClearSearch
  \/ \E t \in timers : DebounceFire(t)

Spec == Init /\ [][Next]_vars

-----------------------------------------------------------------------------
\* Helpers of the properties.
PendingFor(p, c) == {f \in p : f.coll = c}

Pos(list, icon) == CHOOSE i \in 1..Len(list) : list[i] = icon

NoDuplicates(list) ==
  \A i, j \in 1..Len(list) : list[i] = list[j] => i = j

\* sub is an order-preserving selection of the (duplicate-free) list
IsSubsequence(sub, list) ==
  /\ \A i \in 1..Len(sub) : sub[i] \in Range(list)
  /\ \A i, j \in 1..Len(sub) : i < j => Pos(list, sub[i]) < Pos(list, sub[j])

\* C1: once every fetch has resolved, the active icon list and the search
\* index are those of the collection selected last.
C1_LastSelectionWins ==
  (~manifestPending /\ pending = {} /\ failed = {} /\ collection # "")
    => /\ icons.list = server[collection]
       /\ fuseRef.docs = server[collection]

\* C2 as stated: the fetch of a collection is issued at most once and its
\* search index is built at most once.
C2_FetchedAndBuiltOnce ==
  \A c \in CollectionIds : issued[c] <= 1 /\ built[c] <= 1

\* C2 as amended: a fetch of C is issued only while the cache holds no entry
\* for C, one index is built per resolved fetch of C, and every cache entry
\* comes from such a build.
C2_FetchOnlyWhileUncached ==
  /\ [][\A c \in CollectionIds : issued'[c] # issued[c] => ~(c \in DOMAIN cache)]_vars
  /\ [](\A c \in CollectionIds :
          /\ built[c] + Cardinality(PendingFor(pending, c))
               + Cardinality({f \in failed : f.coll = c}) = issued[c]
          /\ (c \in DOMAIN cache <=> built[c] >= 1))

C2_Refetched ==
  \E c \in CollectionIds : issued[c] = 2 /\ built[c] = 2 /\ c \in DOMAIN cache

\* C3 as stated: an entry of the cache is never removed and never replaced.
C3_EntryNeverReplaced ==
  [][\A c \in DOMAIN cache : c \in DOMAIN cache' /\ cache'[c] = cache[c]]_vars

\* C3 as amended: an entry is never removed; it is replaced only by a fetch
\* of the same collection that was already in flight; once no fetch of C is in
\* flight the entry stays the same instance and no fetch of C is issued, and a
\* selection of a cached C activates exactly that entry.
C3_EntryStableOnceSettled ==
  [][\A c \in DOMAIN cache :
       /\ c \in DOMAIN cache'
       /\ cache'[c] # cache[c] =>
            \E f \in PendingFor(pending, c) : cache'[c].fuse.id = f.id
       /\ PendingFor(pending, c) = {} =>
            /\ cache'[c] = cache[c]
            /\ PendingFor(pending', c) = {}
       /\ (collection' = c /\ collection # c) =>
            /\ icons' = cache[c].icons
            /\ fuseRef' = cache[c].fuse]_vars

C3_SettledEntry ==
  \E c \in DOMAIN cache :
    /\ built[c] = 2
    /\ PendingFor(pending, c) = {}
    /\ collection = c
    /\ fuseRef = cache[c].fuse

C5_LastWriterWins ==
  \A c \in CollectionIds :
    (PendingFor(pending, c) = {} /\ built[c] >= 1) =>
      /\ c \in DOMAIN cache
      /\ cache[c].icons.id = lastResolved[c]
      /\ cache[c].fuse.id = lastResolved[c]
      /\ cache[c].fuse.docs = cache[c].icons.list
      /\ \A i \in 1..Len(cache[c].icons.list) :
           cache[c].icons.list[i].collection = c

C5_TwoWriters ==
  \E c \in CollectionIds :
    /\ built[c] = 2
    /\ PendingFor(pending, c) = {}
    /\ collection # c

-----------------------------------------------------------------------------
\* The filter pipeline over arbitrary icon lists: the session right after
\* collection "a" was loaded, for every enumerated list and for long lists
\* around the search cap.
RECURSIVE SeqsUpTo(_, _)
SeqsUpTo(S, n) ==
  IF n = 0 THEN {<<>>}
  ELSE LET shorter == SeqsUpTo(S, n - 1)
       IN shorter \cup {Append(q, x) : q \in shorter, x \in S}

IconKinds ==
  {<<Home, "solid">>, <<Hame, "solid">>, <<Hame, "outline">>,
   <<Star, "solid">>, <<Home, "all">>}

ListOf(kinds) ==
  [i \in 1..Len(kinds) |-> Icon(kinds[i][1], kinds[i][2], <<"a", i>>, "a")]

EnumLists == {ListOf(k) : k \in SeqsUpTo(IconKinds, MaxLen)}

BigPatterns == {1, 2, 3}

BigKind(p, i) ==
  CASE p = 1 -> <<Home, IF i % 2 = 1 THEN "solid" ELSE "outline">>
    [] p = 2 -> <<IF i % 2 = 1 THEN Hame ELSE Home, StyleOrder[(i % 3) + 1]>>
    [] OTHER -> <<IF i = 1 THEN Star ELSE Home,
                  IF i > FUSE_LIMIT THEN "outline" ELSE "solid">>

BigLists ==
  {ListOf([i \in 1..n |-> BigKind(p, i)]) :
     n \in (FUSE_LIMIT - 1)..(FUSE_LIMIT + BigExtra), p \in BigPatterns}

\* Lists of a few rows: one full row, one icon more, and 37 icons.
MidLists ==
  {ListOf([i \in 1..n |-> BigKind(p, i)]) : n \in {9, 10, 37}, p \in BigPatterns}

\* The App state right after collection "a" was loaded with the list L.
AppLoaded(L) ==
    LET data == [id |-> 1, list |-> L]
        fuse == NewFuse(data)
    IN /\ server = [c \in CollectionIds |-> IF c = "a" THEN L ELSE <<>>]
       /\ manifestPending = FALSE
       /\ collections = <<"a", "b">>
       /\ collection = "a"
       /\ icons = data
       /\ fuseRef = fuse
       /\ cache = MapSet(EmptyMap, "a", [icons |-> data, fuse |-> fuse])
       /\ pending = {}
       /\ nextId = 2
       /\ loading = FALSE
       /\ search = <<>>
       /\ debouncedSearch = <<>>
       /\ timers = {}
       /\ style = "all"
       /\ styles = BuildStyleIndex(L).styles
       /\ styleIndex = BuildStyleIndex(L).styleIndex
       /\ filtered = L
       /\ rows = Rows(L)
       /\ issued = [c \in CollectionIds |-> IF c = "a" THEN 1 ELSE 0]
       /\ built = [c \in CollectionIds |-> IF c = "a" THEN 1 ELSE 0]
       /\ lastResolved = [c \in CollectionIds |-> IF c = "a" THEN 1 ELSE 0]
       /\ failed = {}
       /\ keys = 0
       /\ applied = 0

\* No icon is selected: IconModal is not mounted.
ModalClosed ==
  /\ content = <<>>
  /\ color = DefaultColor
  /\ size = DefaultSize
  /\ svg = <<>>

InitFilter ==
  \E L \in EnumLists \cup MidLists \cup BigLists : AppLoaded(L) /\ ModalClosed

NextFilter ==
  \/ \E s \in StyleValues : handleStyleChange(s)
  \/ \E v \in Queries : handleSearchChange(v)
  \/ handleClearSearch
  \/ \E t \in timers : DebounceFire(t)

SpecFilter == InitFilter /\ [][NextFilter]_vars

WithStyle(list, s) == SelectSeq(list, LAMBDA i : i.style = s)

\* C8: with an empty query the Filtered View is the whole icon list for style
\* "all", and otherwise the style's precomputed group, which is the icons of
\* that style in source order.
C8_EmptyQueryByStyle ==
  debouncedSearch = <<>> =>
    IF style = "all" THEN filtered = icons.list
    ELSE /\ filtered = MapGet(styleIndex, style)
         /\ filtered = WithStyle(icons.list, style)

C8_StyleGroupShown ==
  /\ debouncedSearch = <<>>
  /\ style # "all"
  /\ Len(filtered) >= 1
  /\ Len(filtered) < Len(icons.list)

\* relevance: fewer errors first, ties in index order
Before(x, y, q) ==
  \/ FuseErrors(x.name, q) < FuseErrors(y.name, q)
  \/ /\ FuseErrors(x.name, q) = FuseErrors(y.name, q)
     /\ x.path[2] < y.path[2]

\* C9: with a non-empty query the Filtered View is the match list of the
\* active list's index in relevance order, cut to 500, and then restricted to
\* the active style; it never exceeds 500 icons.
C9_SearchCappedThenStyle ==
  debouncedSearch # <<>> =>
    LET capped == FuseSearch(NewFuse(icons), debouncedSearch, FUSE_LIMIT)
    IN /\ fuseRef.docs = icons.list
       /\ Len(capped) <= FUSE_LIMIT
       /\ filtered = IF style = "all" THEN capped ELSE WithStyle(capped, style)
       /\ Len(filtered) <= FUSE_LIMIT
       /\ \A i \in 1..Len(filtered) :
            /\ FuseMatches(filtered[i].name, debouncedSearch)
            /\ style # "all" => filtered[i].style = style
            /\ i > 1 => Before(filtered[i - 1], filtered[i], debouncedSearch)

C9_CapCutsStyleMatch ==
  /\ debouncedSearch # <<>>
  /\ style # "all"
  /\ Len(icons.list) > FUSE_LIMIT
  /\ Len(filtered) >= 1
  /\ LET last == icons.list[Len(icons.list)]
     IN /\ last.style = style
        /\ FuseMatches(last.name, debouncedSearch)
        /\ filtered[Len(filtered)] # last

\* C10: the style index maps every style to exactly the icons of the list
\* with that style, in list order, and has no other key.
C10_StyleGrouping ==
  /\ DOMAIN styleIndex = {icons.list[i].style : i \in 1..Len(icons.list)}
  /\ \A s \in StyleValues :
       /\ MapGet(styleIndex, s) = WithStyle(icons.list, s)
       /\ \A i \in 1..Len(MapGet(styleIndex, s)) :
            MapGet(styleIndex, s)[i].style = s

C10_TwoGroups ==
  /\ Cardinality(DOMAIN styleIndex) >= 2
  /\ \E s \in DOMAIN styleIndex : Len(styleIndex[s]) >= 2
  /\ Len(icons.list) <= MaxLen

-----------------------------------------------------------------------------
\* C11: the rows, read in order, are the Filtered View of the same state:
\* icon k of the view is icon ((k-1) mod 9)+1 of row ((k-1) div 9)+1, every
\* row holds 1 to 9 icons, and only the last row holds fewer than 9.
C11_RowsPartitionFiltered ==
  /\ \A r \in 1..Len(rows) :
       /\ Len(rows[r]) >= 1
       /\ Len(rows[r]) <= ICONS_PER_ROW
       /\ r < Len(rows) => Len(rows[r]) = ICONS_PER_ROW
  /\ (rows = <<>>) <=> (filtered = <<>>)
  /\ rows # <<>> =>
       (Len(rows) - 1) * ICONS_PER_ROW + Len(rows[Len(rows)]) = Len(filtered)
  /\ \A k \in 1..Len(filtered) :
       LET r == ((k - 1) \div ICONS_PER_ROW) + 1
           j == ((k - 1) % ICONS_PER_ROW) + 1
       IN r <= Len(rows) /\ j <= Len(rows[r]) /\ rows[r][j] = filtered[k]

C11_ShortLastRowAfterSearch ==
  /\ debouncedSearch # <<>>
  /\ style # "all"
  /\ Len(rows) >= 2
  /\ Len(rows[Len(rows)]) < ICONS_PER_ROW

\* C12: the number of rows is ceil(n / 9) for a Filtered View of n icons and
\* the scrollable height is that number times 120; 37 icons give 5 rows with
\* 1 icon in the last, no icon gives no row.
C12_RowCountAndHeight ==
  LET n == Len(filtered)
      count == (n + ICONS_PER_ROW - 1) \div ICONS_PER_ROW
  IN /\ Len(rows) = count
     /\ TotalSize(Len(rows)) = count * ROW_HEIGHT
     /\ n = 37 => Len(rows) = 5 /\ Len(rows[5]) = 1
                  /\ TotalSize(Len(rows)) = 5 * ROW_HEIGHT
     /\ n = 0 => Len(rows) = 0 /\ TotalSize(Len(rows)) = 0

C12_ThirtySevenIcons ==
  /\ Len(filtered) = 37
  /\ Len(rows) = 5
  /\ Len(rows[5]) = 1

-----------------------------------------------------------------------------
\* IconModal: the svg memo. Markup is the sequence of its opening tags in
\* document order, each with its attributes in order; an attribute name is
\* its sequence of characters and every value is written in double quotes.
Attr(n, v) == [name |-> n, value |-> v]
Element(t, as) == [tag |-> t, attrs |-> as]

NFill == <<"f", "i", "l", "l">>
NWidth == <<"w", "i", "d", "t", "h">>
NHeight == <<"h", "e", "i", "g", "h", "t">>
NStrokeWidth == <<"s", "t", "r", "o", "k", "e", "-">> \o NWidth
NFillRule == NFill \o <<"-", "r", "u", "l", "e">>
NViewBox == <<"v", "i", "e", "w", "B", "o", "x">>

\* `${size}`
SizeText(n) ==
  CASE n = 16 -> "16" [] n = 32 -> "32" [] n = 50 -> "50" [] n = 64 -> "64"
    [] OTHER -> "256"

\* key="[^"]*" matches at an attribute exactly when the attribute's name ends
\* with key: the pattern has no anchor before it.
EndsWith(n, key) ==
  /\ Len(n) >= Len(key)
  /\ SubSeq(n, Len(n) - Len(key) + 1, Len(n)) = key

\* regex.test(s) / s.includes('key=')
HasMatch(m, key) ==
  \E e \in 1..Len(m) : \E a \in 1..Len(m[e].attrs) :
    EndsWith(m[e].attrs[a].name, key)

SetValue(at, v) == [at EXCEPT !.value = v]

\* s.replace(/key="[^"]*"/g, `key="${v}"`)
ReplaceAll(m, key, v) ==
  [e \in 1..Len(m) |->
     [m[e] EXCEPT !.attrs =
        [a \in 1..Len(m[e].attrs) |->
           IF EndsWith(m[e].attrs[a].name, key)
             THEN SetValue(m[e].attrs[a], v)
           ELSE m[e].attrs[a]]]]

\* the first match in document order
FirstMatch(m, key) ==
  LET e == CHOOSE x \in 1..Len(m) :
             /\ \E a \in 1..Len(m[x].attrs) : EndsWith(m[x].attrs[a].name, key)
             /\ \A y \in 1..(x - 1) : \A a \in 1..Len(m[y].attrs) :
                  ~EndsWith(m[y].attrs[a].name, key)
      a == CHOOSE x \in 1..Len(m[e].attrs) :
             /\ EndsWith(m[e].attrs[x].name, key)
             /\ \A y \in 1..(x - 1) : ~EndsWith(m[e].attrs[y].name, key)
  IN <<e, a>>

\* s.replace(/key="[^"]*"/, `key="${v}"`): the first match only
ReplaceFirst(m, key, v) ==
  IF ~HasMatch(m, key) THEN m
  ELSE LET at == FirstMatch(m, key)
       IN [m EXCEPT ![at[1]].attrs[at[2]] = SetValue(@, v)]

\* s.replace('<svg', `<svg ${attrs}`): after the first '<svg' of the string
InjectAtSvg(m, as) ==
  IF \E e \in 1..Len(m) : m[e].tag = "svg"
    THEN LET e == CHOOSE x \in 1..Len(m) :
                    /\ m[x].tag = "svg"
                    /\ \A y \in 1..(x - 1) : m[y].tag # "svg"
         IN [m EXCEPT ![e].attrs = as \o @]
  ELSE m

\* Handle fill
FillStep_FirstOnly(s, c) ==
  IF HasMatch(s, NFill) THEN ReplaceFirst(s, NFill, c)
  ELSE InjectAtSvg(s, <<Attr(NFill, c)>>)

FillStep_AlwaysInject(s, c) ==
  InjectAtSvg(ReplaceAll(s, NFill, c), <<Attr(NFill, c)>>)

FillStep(s, c) ==
  IF HasMatch(s, NFill) THEN ReplaceAll(s, NFill, c)
  ELSE InjectAtSvg(s, <<Attr(NFill, c)>>)

\* Handle dimensions
DimStep(s, n) ==
  LET hasWidth == HasMatch(s, NWidth)
      hasHeight == HasMatch(s, NHeight)
      s1 == IF hasWidth THEN ReplaceFirst(s, NWidth, SizeText(n)) ELSE s
      s2 == IF hasHeight THEN ReplaceFirst(s1, NHeight, SizeText(n)) ELSE s1
  IN IF ~hasWidth /\ ~hasHeight
       THEN InjectAtSvg(s2, <<Attr(NWidth, SizeText(n)),
                              Attr(NHeight, SizeText(n))>>)
     ELSE s2

Transform(m, c, n) == DimStep(FillStep(m, c), n)

\* Inputs of the customization view.
Colors == {DefaultColor, "#ff0000", "#00ff00"}
Sizes == {DefaultSize, 32, 50}

RECURSIVE SubSeqs(_)
SubSeqs(q) ==
  IF q = <<>> THEN {<<>>}
  ELSE LET rest == SubSeqs(Tail(q))
       IN rest \cup {<<Head(q)>> \o r : r \in rest}

RootAttrPool ==
  <<Attr(NViewBox, "0 0 24 24"), Attr(NFill, "none"), Attr(NWidth, "10"),
    Attr(NStrokeWidth, "2"), Attr(NHeight, "10")>>

ChildChoices ==
  {<<>>,
   <<Element("path", <<>>)>>,
   <<Element("path", <<Attr(NFill, "#111"), Attr(NFillRule, "evenodd")>>)>>,
   <<Element("path", <<Attr(NFill, "none")>>),
     Element("path", <<Attr(NFill, "#111")>>)>>,
   <<Element("rect", <<Attr(NWidth, "5"), Attr(NHeight, "5")>>)>>,
   <<Element("svg", <<Attr(NHeight, "5")>>)>>}

Markups ==
  {<<Element(t, as)>> \o ch :
     t \in {"svg", "g"}, as \in SubSeqs(RootAttrPool), ch \in ChildChoices}

appVars ==
  <<server, manifestPending, collections, collection, icons, fuseRef, cache,
    pending, nextId, loading, search, debouncedSearch, timers, style, styles,
    styleIndex, filtered, rows, issued, built, lastResolved, failed, keys,
    applied>>

handleColorChange(c) ==
  /\ content # <<>>
  /\ c # color
  /\ color' = c
  /\ svg' = Transform(content, c, size)
  /\ UNCHANGED <<appVars, content, size>>

handleSizeChange(n) ==
  /\ content # <<>>
  /\ n # size
  /\ size' = n
  /\ svg' = Transform(content, color, n)
  /\ UNCHANGED <<appVars, content, color>>

\* An icon with the markup m was selected: IconModal is mounted.
InitSvg ==
  /\ AppLoaded(ListOf(<<<<Home, "solid">>>>))
  /\ content \in Markups
  /\ color = DefaultColor
  /\ size = DefaultSize
  /\ svg = Transform(content, color, size)

NextSvg ==
  \/ \E c \in Colors : handleColorChange(c)
  \/ \E n \in Sizes : handleSizeChange(n)

SpecSvg == InitSvg /\ [][NextSvg]_vars

-----------------------------------------------------------------------------
\* Properties of the svg memo

\* positions <<element, attribute>> of the attributes named n
AttrsNamed(m, n) ==
  {at \in UNION {{<<e, a>> : a \in 1..Len(m[e].attrs)} : e \in 1..Len(m)} :
     m[at[1]].attrs[at[2]].name = n}

RootAttrsNamed(m, n) == {at \in AttrsNamed(m, n) : at[1] = 1}

ValueAt(m, at) == m[at[1]].attrs[at[2]].value

RootIsSvg(m) == m # <<>> /\ m[1].tag = "svg"

IsDim(at) == at.name \in {NWidth, NHeight}
NotDim(at) == ~IsDim(at)
NotInjectable(at) == at.name \notin {NFill, NWidth, NHeight}

\* C13: for a markup with a root svg tag, when the markup has a fill
\* attribute on some element, every fill attribute of the output carries
\* the requested color and their number is unchanged; when it has none, the
\* output has exactly one fill attribute, on the root tag, with that color.
C13_FillRule ==
  RootIsSvg(content) =>
    IF AttrsNamed(content, NFill) # {}
      THEN /\ \A at \in AttrsNamed(svg, NFill) : ValueAt(svg, at) = color
           /\ Cardinality(AttrsNamed(svg, NFill)) =
                Cardinality(AttrsNamed(content, NFill))
           /\ \A e \in 1..Len(content) :
                Cardinality({at \in AttrsNamed(svg, NFill) : at[1] = e}) =
                  Cardinality({at \in AttrsNamed(content, NFill) : at[1] = e})
    ELSE /\ Cardinality(AttrsNamed(svg, NFill)) = 1
         /\ \A at \in AttrsNamed(svg, NFill) :
              at[1] = 1 /\ ValueAt(svg, at) = color

\* a markup with fills on the root and on two children, recolored
C13_NestedFillsRecolored ==
  /\ RootIsSvg(content)
  /\ Cardinality(AttrsNamed(content, NFill)) = 3
  /\ color = "#ff0000"

\* C14: width and height are detected on the root tag only; a root width or
\* height is set to the requested size; when the root has neither, both are
\* injected on the root; when it has one, the other stays absent; no
\* attribute of another element and no other root attribute changes.
C14_RootDimensionsOnly ==
  LET s == FillStep(content, color)
      rootW == RootAttrsNamed(s, NWidth) # {}
      rootH == RootAttrsNamed(s, NHeight) # {}
  IN RootIsSvg(content) =>
       /\ Tail(svg) = Tail(s)
       /\ SelectSeq(svg[1].attrs, NotDim) = SelectSeq(s[1].attrs, NotDim)
       /\ \A at \in RootAttrsNamed(svg, NWidth) \cup RootAttrsNamed(svg, NHeight) :
            ValueAt(svg, at) = SizeText(size)
       /\ (RootAttrsNamed(svg, NWidth) # {}) <=> (rootW \/ ~rootH)
       /\ (RootAttrsNamed(svg, NHeight) # {}) <=> (rootH \/ ~rootW)

\* C15: a markup with a root svg tag and no fill, width or height attribute
\* on any element comes out with exactly one fill = color, one width = size
\* and one height = size on the root tag and is otherwise unchanged.
C15_InjectsAllThree ==
  (/\ RootIsSvg(content)
   /\ \A n \in {NFill, NWidth, NHeight} : AttrsNamed(content, n) = {}) =>
    /\ \A n \in {NFill, NWidth, NHeight} :
         /\ Cardinality(AttrsNamed(svg, n)) = 1
         /\ Cardinality(RootAttrsNamed(svg, n)) = 1
    /\ \A at \in AttrsNamed(svg, NFill) : ValueAt(svg, at) = color
    /\ \A at \in AttrsNamed(svg, NWidth) \cup AttrsNamed(svg, NHeight) :
         ValueAt(svg, at) = SizeText(size)
    /\ SelectSeq(svg[1].attrs, NotInjectable) = content[1].attrs
    /\ Tail(svg) = Tail(content)

\* C16: transforming the output again with the same color and size changes
\* nothing; for every other color and size, applying them twice to the
\* output equals applying them once, and no element gains an attribute.
C16_Idempotent ==
  content # <<>> =>
    /\ Transform(svg, color, size) = svg
    /\ \A c2 \in Colors, s2 \in Sizes :
         LET once == Transform(svg, c2, s2)
         IN /\ Transform(once, c2, s2) = once
            /\ \A e \in 1..Len(svg) : Len(once[e].attrs) = Len(svg[e].attrs)

\* fill was injected into a markup without one, after both inputs changed
C16_InjectedThenReapplied ==
  /\ RootIsSvg(content)
  /\ AttrsNamed(content, NFill) = {}
  /\ AttrsNamed(svg, NFill) # {}
  /\ color # DefaultColor
  /\ size # DefaultSize

-----------------------------------------------------------------------------
\* C17: whenever the view is not loading, the active style is "all" or a
\* style of the active icon list, i.e. a member of the styles list.
C17_StyleAmongStyles ==
  ~loading =>
    /\ style \in Range(styles)
    /\ style = "all" \/ \E i \in 1..Len(icons.list) : icons.list[i].style = style

\* C18: the search index in use is the one built from the active icon list,
\* and the Filtered View is the result of querying that index: the list and
\* the index are replaced together on a cache hit and on a fetch resolution.
C18_IndexOfActiveList ==
  /\ fuseRef = NewFuse(icons)
  /\ filtered = Filtered(icons, debouncedSearch, style, NewFuse(icons),
                         styleIndex)

\* collection "a" was restored from the cache after "b" had been fetched,
\* and a query is active
C18_SearchAfterCacheHit ==
  /\ collections # <<>> /\ collections[1] = "a"
  /\ collection = "a"
  /\ issued["a"] = 1 /\ issued["b"] = 1
  /\ pending = {}
  /\ icons.id = lastResolved["a"]
  /\ debouncedSearch # <<>>
  /\ filtered # <<>>

-----------------------------------------------------------------------------
\* The session in which no fetch fails: every response that is awaited
\* eventually arrives (the manifest's, and each pending collection's).
NextLive ==
  \/ \E m \in Manifests : ManifestLoaded(m)
  \/ \E c \in CollectionIds : handleCollectionChange(c)
  \/ \E f \in pending : CollectionLoaded(f)
  \/ \E s \in StyleValues : handleStyleChange(s)
  \/ \E v \in Queries : handleSearchChange(v)
  \/ handleClearSearch
  \/ \E t \in timers : DebounceFire(t)

SpecLive ==
  /\ Init
  /\ [][NextLive]_vars
  /\ WF_vars(\E m \in Manifests : ManifestLoaded(m))
  /\ WF_vars(\E f \in pending : CollectionLoaded(f))

\* C19: when every fetch succeeds the view eventually leaves the loading
\* state, whatever the manifest holds (a manifest without collections
\* included) and whatever collections are selected.
C19_EventuallyLoaded == <>(~loading)

-----------------------------------------------------------------------------
\* C20: every style value carried by some icon of the list, the literal
\* "all" included, occurs exactly once in the styles list, and selecting it
\* with an empty query shows exactly the icons of that style.
C20_EachStyleOnce ==
  \A i \in 1..Len(icons.list) :
    LET s == icons.list[i].style
    IN /\ Cardinality({k \in 1..Len(styles) : styles[k] = s}) = 1
       /\ (style = s /\ debouncedSearch = <<>>) =>
            filtered = WithStyle(icons.list, s)

====
